---- MODULE Spec2Model ----
(***************************************************************************)
(* Model of gmail-mcp-server (src/server.py): the base64url codec, the     *)
(* credential resolver and the seven tool handlers.  Every handler is a    *)
(* stateless request/response function of its arguments, the override map, *)
(* the process environment and the answers of the remote services; the     *)
(* model records, per invocation, the ordered trace of credential          *)
(* resolutions and remote calls and the outcome (a returned value or an    *)
(* exception that leaves the handler).                                     *)
(***************************************************************************)
EXTENDS Integers, Sequences, FiniteSets

(***************************************************************************)
(* Bounds of the model.                                                    *)
(***************************************************************************)
MaxLen == 4
MaxParts == 2

(***************************************************************************)
(* Python values.  A str is a sequence of one-character strings, None a    *)
(* sentinel among them; a decoded text is a sequence of code points and a  *)
(* bytes object a sequence of 0..255.  Fixed messages are TLA+ strings.    *)
(***************************************************************************)
None == << "<None>" >>

(* Python truthiness of an Optional[str].                                  *)
Truthy(v) == v # None /\ v # << >>

(* a or b                                                                  *)
Or(a, b) == IF Truthy(a) THEN a ELSE b

(***************************************************************************)
(* base64 (library), URL-safe alphabet.                                    *)
(***************************************************************************)
Alphabet ==
  << "A","B","C","D","E","F","G","H","I","J","K","L","M","N","O","P",
     "Q","R","S","T","U","V","W","X","Y","Z","a","b","c","d","e","f",
     "g","h","i","j","k","l","m","n","o","p","q","r","s","t","u","v",
     "w","x","y","z","0","1","2","3","4","5","6","7","8","9","-","_" >>

Pad == "="

B64Char(n) == Alphabet[n + 1]

B64Index(c) == CHOOSE n \in 0..63 : Alphabet[n + 1] = c

RECURSIVE urlsafe_b64encode(_)
urlsafe_b64encode(b) ==
  IF Len(b) = 0 THEN << >>
  ELSE IF Len(b) = 1 THEN
    << B64Char(b[1] \div 4), B64Char((b[1] % 4) * 16), Pad, Pad >>
  ELSE IF Len(b) = 2 THEN
    << B64Char(b[1] \div 4), B64Char((b[1] % 4) * 16 + b[2] \div 16),
       B64Char((b[2] % 16) * 4), Pad >>
  ELSE
    << B64Char(b[1] \div 4), B64Char((b[1] % 4) * 16 + b[2] \div 16),
       B64Char((b[2] % 16) * 4 + b[3] \div 64), B64Char(b[3] % 64) >>
    \o urlsafe_b64encode(SubSeq(b, 4, Len(b)))

(* str.rstrip(c) for a one-character c                                     *)
RECURSIVE rstrip(_, _)
rstrip(s, c) ==
  IF Len(s) > 0 /\ s[Len(s)] = c THEN rstrip(SubSeq(s, 1, Len(s) - 1), c)
  ELSE s

(* binascii.a2b_base64 in its default, non-strict mode: i is the next     *)
(* character, quad the position in the current group of four, left the    *)
(* bits carried over, pads the '=' seen since the last data character.    *)
RECURSIVE a2b_base64(_, _, _, _, _, _)
a2b_base64(s, i, quad, left, pads, out) ==
  IF i > Len(s) THEN
    IF quad = 0 THEN [ok |-> TRUE, bytes |-> out]
    ELSE IF quad = 1 THEN [ok |-> FALSE, error |-> "Invalid base64-encoded string"]
    ELSE [ok |-> FALSE, error |-> "Incorrect padding"]
  ELSE IF s[i] = Pad THEN
    IF quad >= 2 /\ quad + pads + 1 >= 4 THEN [ok |-> TRUE, bytes |-> out]
    ELSE a2b_base64(s, i + 1, quad, left, IF quad >= 2 THEN pads + 1 ELSE pads, out)
  ELSE
    LET c == B64Index(s[i]) IN
    CASE quad = 0 -> a2b_base64(s, i + 1, 1, c, 0, out)
      [] quad = 1 -> a2b_base64(s, i + 1, 2, c % 16, 0,
                                Append(out, (left * 4 + c \div 16) % 256))
      [] quad = 2 -> a2b_base64(s, i + 1, 3, c % 4, 0,
                                Append(out, (left * 16 + c \div 4) % 256))
      [] quad = 3 -> a2b_base64(s, i + 1, 0, 0, 0,
                                Append(out, (left * 64 + c) % 256))

urlsafe_b64decode(s) == a2b_base64(s, 1, 0, 0, 0, << >>)

(* data_b64 + "=" * pad: pad to a multiple of four characters             *)
Repad(s) == s \o [i \in 1..((4 - (Len(s) % 4)) % 4) |-> Pad]

(* The decoder without the re-padding step.                                *)
b64url_decode_NoRepad(data_b64) == urlsafe_b64decode(data_b64)

_b64url_decode(data_b64) == urlsafe_b64decode(Repad(data_b64))

(* urlsafe_b64encode(...).decode('ascii').rstrip('=')                       *)
EncodeRaw(bytes) == rstrip(urlsafe_b64encode(bytes), Pad)

Replacement == 65533

(* bytes.decode("utf-8", errors="replace") for one- and two-byte forms;    *)
(* any other byte becomes U+FFFD (leads of three- and four-byte forms,     *)
(* 0xE0..0xF4, are not among the inputs drawn below).                      *)
RECURSIVE decode_utf8_replace(_)
decode_utf8_replace(b) ==
  IF Len(b) = 0 THEN << >>
  ELSE IF b[1] < 128 THEN << b[1] >> \o decode_utf8_replace(Tail(b))
  ELSE IF b[1] >= 194 /\ b[1] <= 223 /\ Len(b) >= 2 /\ b[2] >= 128 /\ b[2] <= 191 THEN
    << (b[1] - 192) * 64 + (b[2] - 128) >> \o decode_utf8_replace(SubSeq(b, 3, Len(b)))
  ELSE << Replacement >> \o decode_utf8_replace(Tail(b))

(***************************************************************************)
(* Configuration: the process environment and the per-call override map.   *)
(* A mapping gives every key a str or None (dict.get of a missing key).    *)
(***************************************************************************)
CredKeys == {"CLIENT_ID", "CLIENT_SECRET", "REFRESH_TOKEN"}

BackendKeys == {"BASE_API_URL", "API_BASE_URL", "API_TOKEN"}

ConfigKeys == CredKeys \cup BackendKeys

NoOverride == [given |-> FALSE]

Override(m) == [given |-> TRUE, map |-> m]

(* The lookup going to the environment even when a map is given.           *)
Source_IgnoresOverride(env_override, environ) == environ

(* source = env_override if env_override is not None else os.environ       *)
Source(env_override, environ) ==
  IF env_override.given THEN env_override.map ELSE environ

MissingCredentials ==
  [type |-> "RuntimeError",
   msg |-> "Required Google OAuth credentials not found in environment or env_override parameter"]

(* The resolver reading a key from the environment when the override map   *)
(* has no value for it.                                                    *)
get_google_client_EnvFallback(env_override, environ) ==
  LET source == Source(env_override, environ)
      client_id == Or(source["CLIENT_ID"], environ["CLIENT_ID"])
      client_secret == Or(source["CLIENT_SECRET"], environ["CLIENT_SECRET"])
      refresh_token == Or(source["REFRESH_TOKEN"], environ["REFRESH_TOKEN"])
  IN IF ~(Truthy(client_id) /\ Truthy(client_secret) /\ Truthy(refresh_token))
     THEN [ok |-> FALSE, exc |-> MissingCredentials]
     ELSE [ok |-> TRUE,
           creds |-> [client_id |-> client_id, client_secret |-> client_secret,
                      refresh_token |-> refresh_token]]

(* The credential part of get_google_client: the three lookups and the     *)
(* check; the GoogleClient is constructed by Session below.                *)
get_google_client(env_override, environ) ==
  LET source == Source(env_override, environ)
      client_id == source["CLIENT_ID"]
      client_secret == source["CLIENT_SECRET"]
      refresh_token == source["REFRESH_TOKEN"]
  IN IF ~(Truthy(client_id) /\ Truthy(client_secret) /\ Truthy(refresh_token))
     THEN [ok |-> FALSE, exc |-> MissingCredentials]
     ELSE [ok |-> TRUE,
           creds |-> [client_id |-> client_id, client_secret |-> client_secret,
                      refresh_token |-> refresh_token]]

(***************************************************************************)
(* Outcomes and traces.  A handler run yields the events it produced, in   *)
(* order, and how it ended.                                                *)
(***************************************************************************)
Return(v) == [kind |-> "return", value |-> v]

Raise(e) == [kind |-> "raise", exc |-> e]

Run(t, o) == [trace |-> t, outcome |-> o]

ResolveEvent(r) == [op |-> "get_google_client", ok |-> r.ok]

BuildEvent(creds) ==
  [op |-> "GoogleClient", client_id |-> creds.client_id,
   client_secret |-> creds.client_secret, refresh_token |-> creds.refresh_token,
   token_uri |-> "https://oauth2.googleapis.com/token"]

(* An answer of a remote service: an exception, or a response.             *)
Fails(e) == [raises |-> TRUE, exc |-> e]

Answers(r) == [raises |-> FALSE, resp |-> r]

(* get_google_client(env_override) as a handler runs it: resolution, then  *)
(* the construction of the GoogleClient, which may itself fail (build).    *)
(* Yields the events and, when no session results, the exception.          *)
Session(env_override, environ, build) ==
  LET r == get_google_client(env_override, environ) IN
  IF ~r.ok THEN [ok |-> FALSE, trace |-> << ResolveEvent(r) >>, exc |-> r.exc]
  ELSE IF build.raises
    THEN [ok |-> FALSE, trace |-> << ResolveEvent(r), BuildEvent(r.creds) >>,
          exc |-> build.exc]
    ELSE [ok |-> TRUE, trace |-> << ResolveEvent(r), BuildEvent(r.creds) >>]

(***************************************************************************)
(* send_mail.  The MIME serialisation of email.message is abstracted to    *)
(* the header values present, in the order set, one per line, an empty     *)
(* line and the body; a header value holding a line feed is refused.       *)
(***************************************************************************)
LF == "\n"

Ord(c) == CASE c = LF -> 10 [] c = "a" -> 97 [] c = "b" -> 98 [] c = "h" -> 104
            [] c = "s" -> 115 [] OTHER -> 63

Encode(str) == [i \in 1..Len(str) |-> Ord(str[i])]

HasLF(str) == \E i \in 1..Len(str) : str[i] = LF

HeaderError ==
  [type |-> "ValueError",
   msg |-> "Header values may not contain linefeed or carriage return characters"]

(* msg = EmailMessage(); msg['To'] = to; ...; msg.set_content(body, ...)    *)
BuildMessage(to, subject, body, cc, bcc) ==
  LET headers == << [name |-> "To", value |-> to] >>
                 \o (IF Truthy(cc) THEN << [name |-> "Cc", value |-> cc] >> ELSE << >>)
                 \o (IF Truthy(bcc) THEN << [name |-> "Bcc", value |-> bcc] >> ELSE << >>)
                 \o << [name |-> "Subject", value |-> subject] >>
  IN IF \E i \in 1..Len(headers) : HasLF(headers[i].value)
     THEN [ok |-> FALSE, exc |-> HeaderError]
     ELSE [ok |-> TRUE, headers |-> headers, content |-> body]

RECURSIVE HeaderBytes(_)
HeaderBytes(headers) ==
  IF Len(headers) = 0 THEN << >>
  ELSE Encode(headers[1].value) \o << 10 >> \o HeaderBytes(Tail(headers))

(* msg.as_bytes()                                                          *)
as_bytes(msg) == HeaderBytes(msg.headers) \o << 10 >> \o Encode(msg.content)

SendEvent(raw) == [op |-> "messages.send", userId |-> "me", raw |-> raw]

SendError(e) ==
  Return([content |-> << [type |-> "text",
                          text |-> [prefix |-> "Error sending email: ", error |-> e.msg]] >>,
          isError |-> TRUE])

SendSuccess(id) ==
  Return([content |-> << [type |-> "text",
                          text |-> [prefix |-> "Email sent successfully. Message ID: ",
                                    id |-> id]] >>])

KeyError(k) == [type |-> "KeyError", msg |-> k]

(* send_mail without its try/except: an exception leaves the handler.      *)
send_mail_NoCatch(to, subject, body, cc, bcc, env_override, environ, build, sent) ==
  LET msg == BuildMessage(to, subject, body, cc, bcc) IN
  IF ~msg.ok THEN Run(<< >>, Raise(msg.exc))
  ELSE
    LET raw == EncodeRaw(as_bytes(msg))
        google_client == Session(env_override, environ, build)
    IN IF ~google_client.ok THEN Run(google_client.trace, Raise(google_client.exc))
       ELSE LET t == Append(google_client.trace, SendEvent(raw)) IN
            IF sent.raises THEN Run(t, Raise(sent.exc))
            ELSE IF ~sent.resp.hasId THEN Run(t, Raise(KeyError("id")))
            ELSE Run(t, SendSuccess(sent.resp.id))

(* send_mail resolving credentials only after the remote call was issued.  *)
send_mail_SendFirst(to, subject, body, cc, bcc, env_override, environ, build, sent) ==
  LET msg == BuildMessage(to, subject, body, cc, bcc) IN
  IF ~msg.ok THEN Run(<< >>, SendError(msg.exc))
  ELSE
    LET raw == EncodeRaw(as_bytes(msg))
        google_client == Session(env_override, environ, build)
        t == << SendEvent(raw) >> \o google_client.trace
    IN IF ~google_client.ok THEN Run(t, SendError(google_client.exc))
       ELSE IF sent.raises THEN Run(t, SendError(sent.exc))
       ELSE IF ~sent.resp.hasId THEN Run(t, SendError(KeyError("id")))
       ELSE Run(t, SendSuccess(sent.resp.id))

send_mail(to, subject, body, cc, bcc, env_override, environ, build, sent) ==
  LET msg == BuildMessage(to, subject, body, cc, bcc) IN
  IF ~msg.ok THEN Run(<< >>, SendError(msg.exc))
  ELSE
    LET raw == EncodeRaw(as_bytes(msg))
        google_client == Session(env_override, environ, build)
    IN IF ~google_client.ok THEN Run(google_client.trace, SendError(google_client.exc))
       ELSE LET t == Append(google_client.trace, SendEvent(raw)) IN
            IF sent.raises THEN Run(t, SendError(sent.exc))
            ELSE IF ~sent.resp.hasId THEN Run(t, SendError(KeyError("id")))
            ELSE Run(t, SendSuccess(sent.resp.id))

(***************************************************************************)
(* get_latest_message.                                                     *)
(***************************************************************************)
NoBody == [isNone |-> TRUE]

Text(t) == [isNone |-> FALSE, text |-> t]

ListEvent ==
  [op |-> "messages.list", userId |-> "me", maxResults |-> 1, labelIds |-> << "INBOX" >>]

GetEvent(id) == [op |-> "messages.get", userId |-> "me", id |-> id, format |-> "full"]

(* lst.get("messages") or []                                               *)
MessagesOf(resp) == IF resp.messages.kind = "list" THEN resp.messages.items ELSE << >>

(* headers = {h.get("name"): h.get("value") for h in ...}; headers.get(n): *)
(* the value of the last header named n.                                   *)
RECURSIVE HeaderGet(_, _)
HeaderGet(headers, n) ==
  IF Len(headers) = 0 THEN None
  ELSE IF headers[Len(headers)].name = n THEN headers[Len(headers)].value
  ELSE HeaderGet(SubSeq(headers, 1, Len(headers) - 1), n)

(* urlsafe_b64decode(data + "=" * pad), then raw.decode("utf-8", "replace") *)
DecodeData(data) ==
  LET raw == urlsafe_b64decode(Repad(data)) IN
  IF raw.ok THEN [ok |-> TRUE, text |-> decode_utf8_replace(raw.bytes)]
  ELSE [ok |-> FALSE]

(* The loop over the parts, from part i on, with the body assigned so far. *)
RECURSIVE PartsLoop(_, _, _)
PartsLoop(parts, i, body) ==
  IF i > Len(parts) THEN body
  ELSE
    LET p == parts[i] IN
    IF p.mimeType = "text/plain" /\ Truthy(p.data) THEN
      LET d == DecodeData(p.data) IN
      IF d.ok THEN Text(d.text)
      ELSE PartsLoop(parts, i + 1, Text(<< >>))
    ELSE PartsLoop(parts, i + 1, body)

(* The loop leaving at the first text/plain part with data, decoded or not. *)
RECURSIVE PartsLoop_StopAtFirst(_, _, _)
PartsLoop_StopAtFirst(parts, i, body) ==
  IF i > Len(parts) THEN body
  ELSE
    LET p == parts[i] IN
    IF p.mimeType = "text/plain" /\ Truthy(p.data) THEN
      LET d == DecodeData(p.data) IN
      IF d.ok THEN Text(d.text) ELSE Text(<< >>)
    ELSE PartsLoop_StopAtFirst(parts, i + 1, body)

ExtractBody_StopAtFirst(payload) ==
  IF Len(payload.parts) > 0 THEN PartsLoop_StopAtFirst(payload.parts, 1, NoBody)
  ELSE IF Truthy(payload.body.data) THEN
    LET d == DecodeData(payload.body.data) IN
    IF d.ok THEN Text(d.text) ELSE Text(<< >>)
  ELSE NoBody

(* body = None; parts = payload.get("parts"); if parts: ... else: ...       *)
ExtractBody(payload) ==
  IF Len(payload.parts) > 0 THEN PartsLoop(payload.parts, 1, NoBody)
  ELSE IF Truthy(payload.body.data) THEN
    LET d == DecodeData(payload.body.data) IN
    IF d.ok THEN Text(d.text) ELSE Text(<< >>)
  ELSE NoBody

(* msg.get("payload", {})                                                  *)
EmptyPayload == [headers |-> << >>, parts |-> << >>, body |-> [data |-> None]]

PayloadOf(msg) == IF msg.hasPayload THEN msg.payload ELSE EmptyPayload

NotFound == Return([found |-> FALSE])

Summary(msg_id, msg) ==
  LET payload == PayloadOf(msg) IN
  Return([found |-> TRUE, id |-> msg_id,
          subject |-> HeaderGet(payload.headers, "Subject"),
          from |-> HeaderGet(payload.headers, "From"),
          date |-> HeaderGet(payload.headers, "Date"),
          snippet |-> msg.snippet,
          body |-> ExtractBody(payload)])

(* get_latest_message fetching the first listed entry without looking at   *)
(* whether the list is empty.                                              *)
get_latest_message_NoEmptyCheck(env_override, environ, build, lst, got) ==
  LET client == Session(env_override, environ, build) IN
  IF ~client.ok THEN Run(client.trace, Raise(client.exc))
  ELSE
    LET t1 == Append(client.trace, ListEvent) IN
    IF lst.raises THEN Run(t1, Raise(lst.exc))
    ELSE
      LET messages == MessagesOf(lst.resp)
          msg_id == IF messages = << >> THEN None
                    ELSE IF messages[1].hasId THEN messages[1].id ELSE None
          t2 == Append(t1, GetEvent(msg_id))
      IN IF got.raises THEN Run(t2, Raise(got.exc))
         ELSE Run(t2, Summary(msg_id, got.resp))

get_latest_message(env_override, environ, build, lst, got) ==
  LET client == Session(env_override, environ, build) IN
  IF ~client.ok THEN Run(client.trace, Raise(client.exc))
  ELSE
    LET t1 == Append(client.trace, ListEvent) IN
    IF lst.raises THEN Run(t1, Raise(lst.exc))
    ELSE
      LET messages == MessagesOf(lst.resp) IN
      IF messages = << >> THEN Run(t1, NotFound)
      ELSE IF ~messages[1].hasId THEN Run(t1, Raise(KeyError("id")))
      ELSE
        LET msg_id == messages[1].id
            t2 == Append(t1, GetEvent(msg_id))
        IN IF got.raises THEN Run(t2, Raise(got.exc))
           ELSE Run(t2, Summary(msg_id, got.resp))

(***************************************************************************)
(* list_labels, create_label, modify_message_labels, mark_read.            *)
(***************************************************************************)
LabelsListEvent == [op |-> "labels.list", userId |-> "me"]

LabelsCreateEvent(label) == [op |-> "labels.create", userId |-> "me", label |-> label]

ModifyEvent(message_id, mods) ==
  [op |-> "messages.modify", userId |-> "me", id |-> message_id, mods |-> mods]

(* client = get_google_client(env_override); resp = <call>.execute();       *)
(* return resp                                                             *)
Passthrough(env_override, environ, build, event, ans) ==
  LET client == Session(env_override, environ, build) IN
  IF ~client.ok THEN Run(client.trace, Raise(client.exc))
  ELSE LET t == Append(client.trace, event) IN
       IF ans.raises THEN Run(t, Raise(ans.exc)) ELSE Run(t, Return(ans.resp))

list_labels(env_override, environ, build, ans) ==
  Passthrough(env_override, environ, build, LabelsListEvent, ans)

create_label(label, env_override, environ, build, ans) ==
  Passthrough(env_override, environ, build, LabelsCreateEvent(label), ans)

modify_message_labels(message_id, mods, env_override, environ, build, ans) ==
  Passthrough(env_override, environ, build, ModifyEvent(message_id, mods), ans)

MarkReadMods == [removeLabelIds |-> << "UNREAD" >>]

(* mark_read not handing its env_override on.                              *)
mark_read_DropsOverride(message_id, env_override, environ, build, ans) ==
  modify_message_labels(message_id, MarkReadMods, NoOverride, environ, build, ans)

mark_read(message_id, env_override, environ, build, ans) ==
  modify_message_labels(message_id, MarkReadMods, env_override, environ, build, ans)

(***************************************************************************)
(* refresh_gmail_token.                                                    *)
(***************************************************************************)
DefaultBase ==
  << "h", "t", "t", "p", ":", "/", "/", "l", "o", "c", "a", "l", "h", "o", "s", "t", ":", "8", "0", "0", "0" >>

RefreshPath == "/api/connectors/gmail/refresh"

RefreshTimeout == 20

MissingToken ==
  Return([isError |-> TRUE, error |-> "Missing API_TOKEN in env_override or environment"])

PostEvent(base, api_token) ==
  [op |-> "POST", url |-> [base |-> rstrip(base, "/"), path |-> RefreshPath],
   x_api_token |-> api_token, timeout |-> RefreshTimeout]

(* resp.status_code >= 400, with the boundary status taken as a success.   *)
IsErrorStatus_Above(status_code) == status_code > 400

(* resp.status_code >= 400                                                 *)
IsErrorStatus(status_code) == status_code >= 400

(* The body of the try block once the POST was answered.                   *)
RefreshResult(resp) ==
  IF ~resp.json.ok
  THEN Return([isError |-> TRUE, error |-> "Non-JSON response from backend",
               body |-> resp.text])
  ELSE IF IsErrorStatus(resp.status_code)
  THEN Return([isError |-> TRUE, status_code |-> resp.status_code,
               details |-> resp.json.data])
  ELSE Return([isError |-> FALSE, result |-> resp.json.data])

(* source.get("API_TOKEN") or os.environ.get("API_TOKEN"), and the check   *)
(* "if not api_token".                                                     *)
ApiToken(source, environ) == Or(source["API_TOKEN"], environ["API_TOKEN"])

(* The token lookup taking any value, an empty one included, as a token.   *)
TokenMissing_OnlyNone(api_token) == api_token = None

TokenMissing(api_token) == ~Truthy(api_token)

(* requests: whether "import requests" succeeds; post: the POST's answer.  *)
refresh_gmail_token(env_override, environ, requests, post) ==
  LET source == Source(env_override, environ)
      base == Or(Or(Or(source["BASE_API_URL"], source["API_BASE_URL"]),
                    environ["BASE_API_URL"]), DefaultBase)
      api_token == ApiToken(source, environ)
  IN IF TokenMissing(api_token) THEN Run(<< >>, MissingToken)
     ELSE IF requests.raises
       THEN Run(<< >>, Return([isError |-> TRUE, error |-> requests.exc.msg]))
     ELSE LET t == << PostEvent(base, api_token) >> IN
          IF post.raises THEN Run(t, Return([isError |-> TRUE, error |-> post.exc.msg]))
          ELSE Run(t, RefreshResult(post.resp))

(***************************************************************************)
(* The inputs drawn.                                                       *)
(***************************************************************************)
NoConfig == [k \in ConfigKeys |-> None]

(* A mapping that sets the credential keys from c and the backend keys     *)
(* from b.                                                                 *)
Config(c, b) == [k \in ConfigKeys |-> IF k \in CredKeys THEN c[k] ELSE b[k]]

EnvCreds == [CredKeys -> {None, << "e" >>}]

EnvBackends ==
  { [BASE_API_URL |-> u, API_BASE_URL |-> a, API_TOKEN |-> t] :
      u \in {None, << "e", "/" >>}, a \in {None, << "x" >>},
      t \in {None, << >>, << "t" >>} }

Environments ==
  { Config(c, NoConfig) : c \in EnvCreds } \cup { Config(NoConfig, b) : b \in EnvBackends }

OvCreds == [CredKeys -> {None, << >>, << "o" >>}]

OvBackends ==
  { [BASE_API_URL |-> u, API_BASE_URL |-> a, API_TOKEN |-> t] :
      u \in {None, << >>, << "o", "/", "/" >>}, a \in {None, << "p" >>},
      t \in {None, << >>, << "k" >>} }

AllCredsSet == [k \in CredKeys |-> << "o" >>]

Overrides ==
  {NoOverride}
  \cup { Override(Config(c, NoConfig)) : c \in OvCreds }
  \cup { Override(Config(AllCredsSet, b)) : b \in OvBackends }

HttpError == [type |-> "HttpError", msg |-> "remote API error"]

NetworkError == [type |-> "ConnectionError", msg |-> "network failure"]

ImportError == [type |-> "ImportError", msg |-> "No module named 'requests'"]

Built == [raises |-> FALSE]

Builds == {Built, Fails(NetworkError)}

MessageIds == {<< "m", "1" >>, << "m", "2" >>}

(* send_mail: (to, body, cc, bcc); the subject is fixed.                   *)
MailArgs ==
  { << << "a" >>, << "h" >>, None, None >>,
    << << "a" >>, << >>, << "b" >>, << >> >>,
    << << "a" >>, << "h", "a" >>, None, << "b" >> >>,
    << << "a", LF >>, << "h" >>, None, None >> }

SendAnswers ==
  { Fails(HttpError), Answers([hasId |-> TRUE, id |-> << "m", "1" >>]),
    Answers([hasId |-> FALSE]) }

Ref(id) == [hasId |-> TRUE, id |-> id]

ListAnswers ==
  { Fails(HttpError) } \cup
  { Answers([messages |-> m]) :
      m \in { [kind |-> "absent"], [kind |-> "null"], [kind |-> "list", items |-> << >>],
              [kind |-> "list", items |-> << Ref(<< "m", "1" >>) >>],
              [kind |-> "list", items |-> << Ref(<< "m", "2" >>), Ref(<< "m", "1" >>) >>],
              [kind |-> "list", items |-> << [hasId |-> FALSE] >>] } }

Part(m, d) == [mimeType |-> m, data |-> d]

Hdr(n, v) == [name |-> n, value |-> v]

SampleHeaders ==
  << Hdr("Subject", << "s" >>), Hdr("From", << "a" >>), Hdr("Subject", << "h" >>) >>

Message(headers, parts, data, snippet) ==
  [hasPayload |-> TRUE,
   payload |-> [headers |-> headers, parts |-> parts, body |-> [data |-> data]],
   snippet |-> snippet]

GetAnswers ==
  { Fails(HttpError),
    Answers([hasPayload |-> FALSE, snippet |-> None]),
    Answers(Message(SampleHeaders, << >>, << "Q", "Q" >>, << "s" >>)),
    Answers(Message(<< >>, << Part("text/html", << "Q", "g" >>),
                             Part("text/plain", << "Q", "Q" >>) >>, None, None)) }

LabelAnswers ==
  { Fails(HttpError), Answers([labels |-> << [id |-> << "L", "1" >>] >>]) }

Labels == { [name |-> << "a" >>], [name |-> << >>] }

ModifyAnswers == { Fails(HttpError), Answers([labelIds |-> << "INBOX" >>]) }

Mods ==
  { MarkReadMods, [addLabelIds |-> << "UNREAD" >>],
    [addLabelIds |-> << "STARRED" >>, removeLabelIds |-> << "UNREAD" >>] }

HttpResponse(code, json, text) == [status_code |-> code, json |-> json, text |-> text]

Json(d) == [ok |-> TRUE, data |-> d]

NotJson == [ok |-> FALSE]

PostAnswers ==
  { Fails(NetworkError),
    Answers(HttpResponse(200, Json([status |-> "ok"]), "{status: ok}")),
    Answers(HttpResponse(399, Json([status |-> "ok"]), "{status: ok}")),
    Answers(HttpResponse(400, Json([error |-> "bad request"]), "{error: bad request}")),
    Answers(HttpResponse(401, Json([error |-> "bad token"]), "{error: bad token}")),
    Answers(HttpResponse(200, NotJson, "<html>ok</html>")),
    Answers(HttpResponse(502, NotJson, "<html>bad gateway</html>")) }

(***************************************************************************)
(* The server: the process environment, and the last invocation with the   *)
(* events it produced and its outcome.                                     *)
(***************************************************************************)
VARIABLES environ, call, trace, outcome

vars == << environ, call, trace, outcome >>

Idle == [handler |-> "idle"]

(* The handler of an invocation c run under the environment e.             *)
Invoke(c, e) ==
  CASE c.handler = "send_mail" ->
         send_mail(c.to, c.subject, c.body, c.cc, c.bcc, c.env_override, e, c.build, c.answer)
    [] c.handler = "get_latest_message" ->
         get_latest_message(c.env_override, e, c.build, c.answer, c.got)
    [] c.handler = "list_labels" ->
         list_labels(c.env_override, e, c.build, c.answer)
    [] c.handler = "create_label" ->
         create_label(c.label, c.env_override, e, c.build, c.answer)
    [] c.handler = "modify_message_labels" ->
         modify_message_labels(c.message_id, c.mods, c.env_override, e, c.build, c.answer)
    [] c.handler = "mark_read" ->
         mark_read(c.message_id, c.env_override, e, c.build, c.answer)
    [] c.handler = "refresh_gmail_token" ->
         refresh_gmail_token(c.env_override, e, c.requests, c.answer)

(* The invocation c runs to its end.                                       *)
Serve(c) ==
  /\ call' = c
  /\ trace' = Invoke(c, environ).trace
  /\ outcome' = Invoke(c, environ).outcome
  /\ UNCHANGED environ

Init ==
  /\ environ \in Environments
  /\ call = Idle
  /\ trace = << >>
  /\ outcome = [kind |-> "none"]

SendMail ==
  /\ call = Idle
  /\ \E a \in MailArgs, o \in Overrides, b \in Builds, s \in SendAnswers :
    Serve([handler |-> "send_mail", to |-> a[1], subject |-> << "s" >>, body |-> a[2],
           cc |-> a[3], bcc |-> a[4], env_override |-> o, build |-> b, answer |-> s])

GetLatestMessage ==
  /\ call = Idle
  /\ \E o \in Overrides, b \in Builds, l \in ListAnswers, g \in GetAnswers :
    Serve([handler |-> "get_latest_message", env_override |-> o, build |-> b,
           answer |-> l, got |-> g])

ListLabels ==
  /\ call = Idle
  /\ \E o \in Overrides, b \in Builds, r \in LabelAnswers :
    Serve([handler |-> "list_labels", env_override |-> o, build |-> b, answer |-> r])

CreateLabel ==
  /\ call = Idle
  /\ \E l \in Labels, o \in Overrides, b \in Builds, r \in LabelAnswers :
    Serve([handler |-> "create_label", label |-> l, env_override |-> o, build |-> b,
           answer |-> r])

ModifyMessageLabels ==
  /\ call = Idle
  /\ \E id \in MessageIds, m \in Mods, o \in Overrides, b \in Builds, r \in ModifyAnswers :
    Serve([handler |-> "modify_message_labels", message_id |-> id, mods |-> m,
           env_override |-> o, build |-> b, answer |-> r])

MarkRead ==
  /\ call = Idle
  /\ \E id \in MessageIds, o \in Overrides, b \in Builds, r \in ModifyAnswers :
    Serve([handler |-> "mark_read", message_id |-> id, env_override |-> o, build |-> b,
           answer |-> r])

RefreshGmailToken ==
  /\ call = Idle
  /\ \E o \in Overrides, q \in {Built, Fails(ImportError)}, r \in PostAnswers :
    Serve([handler |-> "refresh_gmail_token", env_override |-> o, requests |-> q,
           answer |-> r])

(* The transport takes the outcome; the invocation leaves nothing behind.  *)
Deliver ==
  /\ call # Idle
  /\ call' = Idle
  /\ trace' = << >>
  /\ outcome' = [kind |-> "none"]
  /\ UNCHANGED environ

Next ==
  \/ SendMail
  \/ GetLatestMessage
  \/ ListLabels
  \/ CreateLabel
  \/ ModifyMessageLabels
  \/ MarkRead
  \/ RefreshGmailToken
  \/ Deliver

Spec == Init /\ [][Next]_vars

(***************************************************************************)
(* The codec on its own: a byte sequence is encoded as send_mail encodes   *)
(* it, then handed to the inbound decoder.                                 *)
(***************************************************************************)
ByteSample == {0, 1, 65, 127, 128, 195, 251, 255}

ByteSeqs == UNION { [1..n -> ByteSample] : n \in 0..MaxLen }

InitCodec ==
  /\ environ = NoConfig
  /\ call = Idle
  /\ trace = << >>
  /\ outcome = [kind |-> "none"]

EncodeOutbound ==
  /\ call = Idle
  /\ \E b \in ByteSeqs :
       /\ call' = [handler |-> "encode", bytes |-> b]
       /\ outcome' = Return([raw |-> EncodeRaw(b)])
  /\ UNCHANGED << environ, trace >>

DecodeInbound ==
  /\ call.handler = "encode"
  /\ call' = [handler |-> "decode", bytes |-> call.bytes, data_b64 |-> outcome.value.raw]
  /\ outcome' = Return(_b64url_decode(outcome.value.raw))
  /\ UNCHANGED << environ, trace >>

NextCodec == EncodeOutbound \/ DecodeInbound

SpecCodec == InitCodec /\ [][NextCodec]_vars

(***************************************************************************)
(* get_latest_message over the messages the remote may hold.               *)
(***************************************************************************)
DataSample ==
  { None, << >>, << "Q" >>, << "Q", "Q" >>, << "Q", "g" >>, << "_", "w" >>,
    << "w", "6", "k" >> }

MimeTypes == {"text/plain", "text/html"}

PartSample == { Part(m, d) : m \in MimeTypes, d \in DataSample }

PartSeqs == UNION { [1..n -> PartSample] : n \in 0..MaxParts }

EnvAllSet == Config([k \in CredKeys |-> << "e" >>], NoConfig)

InitBody ==
  /\ environ = EnvAllSet
  /\ call = Idle
  /\ trace = << >>
  /\ outcome = [kind |-> "none"]

FetchLatest ==
  /\ call = Idle
  /\ \E o \in {NoOverride, Override(Config(AllCredsSet, NoConfig))},
        parts \in PartSeqs, d \in DataSample :
       Serve([handler |-> "get_latest_message", env_override |-> o, build |-> Built,
              answer |-> Answers([messages |->
                          [kind |-> "list", items |-> << Ref(<< "m", "1" >>) >>]]),
              got |-> Answers(Message(SampleHeaders, parts, d, << "s" >>))])

NextBody == FetchLatest \/ Deliver

SpecBody == InitBody /\ [][NextBody]_vars

(***************************************************************************)
(* Properties.                                                             *)
(***************************************************************************)
MailHandlers ==
  {"send_mail", "get_latest_message", "list_labels", "create_label",
   "modify_message_labels", "mark_read"}

RawHandlers == MailHandlers \ {"send_mail"}

Handlers == MailHandlers \cup {"refresh_gmail_token"}

RemoteOps ==
  {"messages.send", "messages.list", "messages.get", "labels.list", "labels.create",
   "messages.modify"}

RemoteCalls(t) == { i \in 1..Len(t) : t[i].op \in RemoteOps }

OverrideHasCreds(o) == \A k \in CredKeys : Truthy(o.map[k])

CredsFound == get_google_client(call.env_override, environ).ok

C2_OverrideDecidesCredentials ==
  (call.handler \in MailHandlers /\ call.env_override.given) =>
    /\ \A e \in Environments :
         /\ get_google_client(call.env_override, e).ok = OverrideHasCreds(call.env_override)
         /\ ~OverrideHasCreds(call.env_override)
              => get_google_client(call.env_override, e).exc = MissingCredentials
    /\ trace # << >> =>
         /\ trace[1].op = "get_google_client"
         /\ trace[1].ok = OverrideHasCreds(call.env_override)
    /\ (trace # << >> /\ ~OverrideHasCreds(call.env_override)) =>
         /\ Len(trace) = 1
         /\ IF call.handler = "send_mail" THEN outcome = SendError(MissingCredentials)
            ELSE outcome = Raise(MissingCredentials)

(* C2 witness: the override map lacks CLIENT_ID, the environment sets it,  *)
(* and the resolution failed.                                              *)
C2_Witness ==
  /\ call.handler \in MailHandlers
  /\ call.env_override.given
  /\ call.env_override.map["CLIENT_ID"] = None
  /\ Truthy(call.env_override.map["CLIENT_SECRET"])
  /\ Truthy(call.env_override.map["REFRESH_TOKEN"])
  /\ \A k \in CredKeys : Truthy(environ[k])
  /\ trace = << [op |-> "get_google_client", ok |-> FALSE] >>

SameRun(e) == Invoke(call, e) = Run(trace, outcome)

(* C3 as stated: with an override map given, every handler reads its keys  *)
(* from the map only, so its run is the same under every environment.      *)
C3_EnvironmentNeverRead ==
  (call.handler \in Handlers /\ call.env_override.given) =>
    \A e \in Environments : SameRun(e)

(* C3, amended: with an override map given, CLIENT_ID, CLIENT_SECRET and   *)
(* REFRESH_TOKEN are read from the map only, so the six mail-API handlers  *)
(* run the same under every environment; refresh_gmail_token reads         *)
(* API_BASE_URL from the map only, but takes API_TOKEN from the            *)
(* environment when the map has no non-empty one, and BASE_API_URL from    *)
(* the environment when the map has no non-empty base URL under either     *)
(* name, so its run is the same under environments that agree on these two.*)
C3_OverrideShadowsCredentials ==
  /\ (call.handler \in MailHandlers /\ call.env_override.given) =>
       \A e \in Environments : SameRun(e)
  /\ (call.handler = "refresh_gmail_token" /\ call.env_override.given) =>
       \A e \in Environments :
         (e["API_TOKEN"] = environ["API_TOKEN"] /\ e["BASE_API_URL"] = environ["BASE_API_URL"])
           => SameRun(e)

(* C3 witness: a mail handler ran to its remote call on the override's     *)
(* credentials while the environment sets credentials of its own.          *)
C3_Witness ==
  /\ call.handler \in MailHandlers
  /\ call.env_override.given
  /\ \A k \in CredKeys : Truthy(environ[k])
  /\ Len(trace) >= 3
  /\ trace[2].client_id = call.env_override.map["CLIENT_ID"]
  /\ trace[2].client_id # environ["CLIENT_ID"]

(* C4: refresh_gmail_token, with no non-empty API_TOKEN in the override    *)
(* map nor in the environment, returns the Missing API_TOKEN error and     *)
(* issues no network call.                                                 *)
C4_MissingTokenNoCall ==
  ( /\ call.handler = "refresh_gmail_token"
    /\ call.env_override.given => ~Truthy(call.env_override.map["API_TOKEN"])
    /\ ~Truthy(environ["API_TOKEN"]) ) =>
    /\ outcome = Return([isError |-> TRUE,
                         error |-> "Missing API_TOKEN in env_override or environment"])
    /\ trace = << >>

(* C4 witness: an override map without API_TOKEN, an environment without   *)
(* one, and the backend ready to answer.                                   *)
C4_Witness ==
  /\ call.handler = "refresh_gmail_token"
  /\ call.env_override.given
  /\ call.env_override.map["API_TOKEN"] = None
  /\ ~Truthy(environ["API_TOKEN"])
  /\ ~call.requests.raises
  /\ ~call.answer.raises
  /\ outcome.value.isError

Posted ==
  /\ call.handler = "refresh_gmail_token"
  /\ Len(trace) = 1
  /\ ~call.answer.raises

(* C5 as stated: a status of 400 or more always gives {isError: true,      *)
(* status_code, details}; a status below 400 with a JSON body gives        *)
(* {isError: false, result}.                                               *)
C5_StatusDecides ==
  Posted =>
    LET resp == call.answer.resp IN
    /\ resp.status_code >= 400 =>
         /\ outcome.kind = "return"
         /\ DOMAIN outcome.value = {"isError", "status_code", "details"}
         /\ outcome.value.isError
         /\ outcome.value.status_code = resp.status_code
    /\ (resp.status_code < 400 /\ resp.json.ok) =>
         outcome = Return([isError |-> FALSE, result |-> resp.json.data])

(* C5, amended: when the backend answers with a JSON body, a status of 400 *)
(* or more gives {isError: true, status_code, details: parsed body} and a  *)
(* status below 400 gives {isError: false, result: parsed body}; a body    *)
(* that is not JSON gives {isError: true, error: "Non-JSON response from   *)
(* backend", body: raw text} whatever the status.                          *)
C5_JsonThenStatus ==
  Posted =>
    LET resp == call.answer.resp IN
    /\ (resp.status_code >= 400 /\ resp.json.ok) =>
         outcome = Return([isError |-> TRUE, status_code |-> resp.status_code,
                           details |-> resp.json.data])
    /\ (resp.status_code < 400 /\ resp.json.ok) =>
         outcome = Return([isError |-> FALSE, result |-> resp.json.data])
    /\ ~resp.json.ok =>
         outcome = Return([isError |-> TRUE, error |-> "Non-JSON response from backend",
                           body |-> resp.text])

(* C5 witness: the backend answered 400 with a JSON body.                  *)
C5_Witness ==
  /\ Posted
  /\ call.answer.resp.status_code = 400
  /\ call.answer.resp.json.ok
  /\ outcome.value.isError

(* C6: get_latest_message returns exactly {found: false} and issues no     *)
(* "get message" call when the list call returned no messages; a "get      *)
(* message" call follows a list call that returned at least one message    *)
(* and asks for the first listed id.                                       *)
C6_GetOnlyAfterNonEmptyList ==
  /\ ( /\ call.handler = "get_latest_message"
       /\ \E i \in 1..Len(trace) : trace[i].op = "messages.list"
       /\ ~call.answer.raises
       /\ \/ call.answer.resp.messages.kind \in {"absent", "null"}
          \/ call.answer.resp.messages.items = << >> ) =>
       /\ outcome = Return([found |-> FALSE])
       /\ \A i \in 1..Len(trace) : trace[i].op # "messages.get"
  /\ \A i \in 1..Len(trace) :
       trace[i].op = "messages.get" =>
         /\ call.handler = "get_latest_message"
         /\ \E j \in 1..(i - 1) : trace[j].op = "messages.list"
         /\ ~call.answer.raises
         /\ call.answer.resp.messages.kind = "list"
         /\ Len(call.answer.resp.messages.items) >= 1
         /\ trace[i].id = call.answer.resp.messages.items[1].id

(* C6 witness: the list call was made and answered with "messages": null.  *)
C6_Witness ==
  /\ call.handler = "get_latest_message"
  /\ Len(trace) = 3
  /\ trace[3].op = "messages.list"
  /\ ~call.answer.raises
  /\ call.answer.resp.messages.kind = "null"
  /\ ~call.got.raises

(* C7: mark_read(message_id, override) issues the remote calls and ends    *)
(* with the outcome of modify_message_labels(message_id,                   *)
(* {removeLabelIds: ["UNREAD"]}, override): one modify call on that        *)
(* message with that body.                                                 *)
C7_MarkReadDelegates ==
  call.handler = "mark_read" =>
    /\ Run(trace, outcome) =
         modify_message_labels(call.message_id, [removeLabelIds |-> << "UNREAD" >>],
                               call.env_override, environ, call.build, call.answer)
    /\ \A i \in RemoteCalls(trace) :
         trace[i] = [op |-> "messages.modify", userId |-> "me", id |-> call.message_id,
                     mods |-> [removeLabelIds |-> << "UNREAD" >>]]
    /\ Cardinality(RemoteCalls(trace)) =
         IF CredsFound /\ ~call.build.raises THEN 1 ELSE 0

(* C7 witness: mark_read under an override map other than the environment  *)
(* issued its modify call and returned the remote response.                *)
C7_Witness ==
  /\ call.handler = "mark_read"
  /\ call.env_override.given
  /\ ~get_google_client(NoOverride, environ).ok
  /\ Len(trace) = 3
  /\ trace[3].op = "messages.modify"
  /\ outcome.kind = "return"

(* C8: the outbound encoding has no '=' in it, and the inbound decoder     *)
(* gives back the bytes that were encoded, whatever padding they need.     *)
C8_RoundTrip ==
  /\ call.handler = "encode" =>
       \A i \in 1..Len(outcome.value.raw) : outcome.value.raw[i] # Pad
  /\ call.handler = "decode" =>
       /\ \A i \in 1..Len(call.data_b64) : call.data_b64[i] # Pad
       /\ outcome.value.ok
       /\ outcome.value.bytes = call.bytes

(* C8 witness: four bytes, whose encoding needs two padding characters,    *)
(* were encoded and decoded.                                               *)
C8_Witness ==
  /\ call.handler = "decode"
  /\ Len(call.bytes) = 4
  /\ Len(urlsafe_b64encode(call.bytes)) = Len(call.data_b64) + 2

(* C9: in every mail-API handler a remote call comes after a successful    *)
(* credential resolution; when resolution fails the invocation issues no   *)
(* remote call, and send_mail returns the content-convention error         *)
(* envelope.                                                               *)
C9_ResolveBeforeRemote ==
  call.handler \in MailHandlers =>
    /\ \A i \in RemoteCalls(trace) :
         \E j \in 1..(i - 1) : trace[j].op = "get_google_client" /\ trace[j].ok
    /\ ~CredsFound => RemoteCalls(trace) = {}
    /\ (call.handler = "send_mail" /\ ~CredsFound /\ trace # << >>) =>
         outcome = Return([content |-> << [type |-> "text",
                              text |-> [prefix |-> "Error sending email: ",
                                        error |-> MissingCredentials.msg]] >>,
                           isError |-> TRUE])

(* C9 witness: send_mail found no credentials and the remote was ready to  *)
(* accept the message.                                                     *)
C9_Witness ==
  /\ call.handler = "send_mail"
  /\ ~CredsFound
  /\ ~call.answer.raises
  /\ trace = << [op |-> "get_google_client", ok |-> FALSE] >>
  /\ outcome.value.isError

Fetched ==
  /\ call.handler = "get_latest_message"
  /\ outcome.kind = "return"
  /\ outcome.value.found

Plain(parts) == { i \in 1..Len(parts) : parts[i].mimeType = "text/plain" }

PlainWithData(parts) == { i \in Plain(parts) : Truthy(parts[i].data) }

Decodable(parts) == { i \in PlainWithData(parts) : DecodeData(parts[i].data).ok }

First(S) == CHOOSE i \in S : \A j \in S : i <= j

DecodedOrEmpty(data) ==
  IF Truthy(data) /\ DecodeData(data).ok THEN DecodeData(data).text ELSE << >>

(* C10 as stated: for a multipart message the first text/plain part alone  *)
(* decides the body (its decoded text, or the empty string when its data   *)
(* does not decode) and the body is None only without a text/plain part;   *)
(* for other messages it is None only without top-level body data.         *)
C10_FirstPlainPartDecides ==
  Fetched =>
    LET payload == call.got.resp.payload
        parts == payload.parts
        body == outcome.value.body
    IN IF Len(parts) > 0
       THEN IF Plain(parts) = {} THEN body = NoBody
            ELSE body = Text(DecodedOrEmpty(parts[First(Plain(parts))].data))
       ELSE (body = NoBody) = ~Truthy(payload.body.data)

(* C10, amended: for a multipart message the body is the decoded text of   *)
(* the first text/plain part whose data is non-empty and decodes; when no  *)
(* part decodes it is the empty string if some text/plain part had         *)
(* non-empty data, and None otherwise.  For other messages it is None      *)
(* without top-level body data, else the decoded data, or the empty string *)
(* when the data does not decode.                                          *)
C10_FirstDecodablePlainPart ==
  Fetched =>
    LET payload == call.got.resp.payload
        parts == payload.parts
        body == outcome.value.body
    IN IF Len(parts) > 0
       THEN IF Decodable(parts) # {}
            THEN body = Text(DecodeData(parts[First(Decodable(parts))].data).text)
            ELSE IF PlainWithData(parts) # {} THEN body = Text(<< >>)
            ELSE body = NoBody
       ELSE IF ~Truthy(payload.body.data) THEN body = NoBody
            ELSE body = Text(DecodedOrEmpty(payload.body.data))

(* C10 witness: the first text/plain part did not decode, a later one did, *)
(* and the body is the later part's text.                                  *)
C10_Witness ==
  /\ Fetched
  /\ Len(call.got.resp.payload.parts) = 2
  /\ PlainWithData(call.got.resp.payload.parts) = {1, 2}
  /\ Decodable(call.got.resp.payload.parts) = {2}
  /\ outcome.value.body = Text(<< 65 >>)

====
